---- MODULE Spec2Model ----
(***************************************************************************)
(* ClipBeat (src/main.py): the item-cycling engine of ClipBeatApp.         *)
(*                                                                         *)
(* The UI context is Tk's single-threaded event loop.  A navigation        *)
(* handler (next_item / prev_item) runs on it, and in the middle of        *)
(* _copy_current it calls self.update(), which dispatches every pending    *)
(* event before it returns.  So a handler is modelled in two steps: the    *)
(* part up to self.update() (a frame is pushed on `stack`), and the part   *)
(* after it (the frame is popped).  Between the two, the event loop may    *)
(* dispatch text edits, local navigation events and marshaled hot-key      *)
(* callbacks.  The hot-key thread only appends to `queue` (tk_safe).       *)
(*                                                                         *)
(* The binding map, the settings file and the hot-keys live in the         *)
(* keyboard library are part of the state: __init__ loads and registers,   *)
(* on_settings_saved saves and registers again.                            *)
(*                                                                         *)
(* Strings are sequences of one-character strings.  The label is a real    *)
(* string, formatted as the f-string of _update_label formats it.          *)
(***************************************************************************)
EXTENDS Integers, Sequences, FiniteSets, TLC

VARIABLES
    text,       \* contents of self.textbox, "1.0" .. "end-1c"
    items,      \* self.items
    line_map,   \* self.line_map
    index,      \* self.index
    clipboard,  \* data the application owns on the clipboard (<<>>: none)
    highlight,  \* set of Text lines carrying the tag "current_item"
    tagged,     \* positions of the characters of the text carrying the tag
    label,      \* text of self.index_lbl
    stack,      \* handlers suspended in self.update(), outermost first
    queue,      \* callbacks scheduled with root.after(0, ...), oldest first
    ctx,        \* execution context of the last step: "ui" or "hotkey"
    edits,      \* edits of the text so far
    trail,      \* the latest uninterrupted calls since the text last changed
    last,       \* how the handler that finished last ended
    hotkeys,    \* self.hotkeys: the combo of each key (Absent: no such key)
    stored,     \* the file at CONFIG_PATH
    regs,       \* hot-keys live in the keyboard library, in the order added
    reported,   \* bindings the latest registration showed an error box for
    backend,    \* _GLOBAL_HOOK_BACKEND
    lib,        \* which clearing function the keyboard library offers
    settings,   \* how the latest on_settings_saved ended
    box,        \* place in KeyOrder of the binding whose error box is open, or 0
    saves,      \* calls of on_settings_saved so far
    root        \* the main thread: "init" inside __init__, "loop" in mainloop(),
                \* "gone" once the window is destroyed

keyvars == <<hotkeys, stored, regs, reported, backend, lib, settings, box, saves, root>>

vars == <<text, items, line_map, index, clipboard, highlight, tagged, label,
          stack, queue, ctx, edits, trail, last,
          hotkeys, stored, regs, reported, backend, lib, settings, box, saves, root>>

----------------------------------------------------------------------------
(* Bounds of the model *)

MaxLines == 2     \* lines the user puts in the text box
MaxEdits == 2     \* edits of the text in one run
MaxDepth == 2     \* handlers in flight plus callbacks waiting in the queue
MaxSaves == 1     \* commits of the settings dialog in one run
MaxChars == 4     \* characters of a text given to the parse

\* Characters str.strip() removes, of those the model's texts can hold
Whitespace == {" ", "\t", "\n", "\r", "\f"}

\* Characters str.splitlines() breaks a line at, of those the texts can hold;
\* "\r\n" is one break.  The Text widget starts a new line at "\n" only.
LineBreaks == {"\n", "\r", "\f"}

\* The lines the user types: an empty one, a blank one, a plain one, an
\* indented one.
LineSet == {<<>>, <<" ">>, <<"a">>, <<" ", "b">>}

RECURSIVE SeqsUpTo(_, _)
SeqsUpTo(S, n) ==
    IF n = 0 THEN {<<>>}
    ELSE LET shorter == SeqsUpTo(S, n - 1)
         IN  shorter \cup {Append(s, c) : s \in {x \in shorter : Len(x) = n - 1}, c \in S}

\* The lines, one "\n" between two of them
RECURSIVE Join(_)
Join(ls) ==
    IF ls = <<>> THEN <<>>
    ELSE IF Len(ls) = 1 THEN ls[1]
    ELSE ls[1] \o <<"\n">> \o Join(Tail(ls))

Texts == {Join(ls) : ls \in SeqsUpTo(LineSet, MaxLines)}

Actions == {"next", "prev"}

----------------------------------------------------------------------------
(* Python helpers *)

Min(a, b) == IF a < b THEN a ELSE b
Max(a, b) == IF a > b THEN a ELSE b

\* str.splitlines(): a line ends at each line break; no empty last line.
RECURSIVE SplitFrom(_, _, _, _)
SplitFrom(t, i, cur, acc) ==
    IF i > Len(t) THEN (IF cur = <<>> THEN acc ELSE Append(acc, cur))
    ELSE IF t[i] = "\r" /\ i < Len(t) /\ t[i + 1] = "\n"
         THEN SplitFrom(t, i + 2, <<>>, Append(acc, cur))
    ELSE IF t[i] \in LineBreaks THEN SplitFrom(t, i + 1, <<>>, Append(acc, cur))
    ELSE SplitFrom(t, i + 1, Append(cur, t[i]), acc)

splitlines(t) == SplitFrom(t, 1, <<>>, <<>>)

\* str.strip(): drop leading, then trailing whitespace.
RECURSIVE lstrip(_)
lstrip(s) ==
    IF s # <<>> /\ Head(s) \in Whitespace THEN lstrip(Tail(s)) ELSE s

RECURSIVE rstrip(_)
rstrip(s) ==
    IF s # <<>> /\ s[Len(s)] \in Whitespace
    THEN rstrip(SubSeq(s, 1, Len(s) - 1)) ELSE s

strip(s) == rstrip(lstrip(s))

\* int -> str, as an f-string formats it
str(n) == ToString(n)

----------------------------------------------------------------------------
(* Data helpers of ClipBeatApp *)

\* The loop of _refresh_items over enumerate(raw, start=1).
RECURSIVE RefreshLoop(_, _, _, _)
RefreshLoop(raw, lineno, its, lm) ==
    IF lineno > Len(raw) THEN [items |-> its, line_map |-> lm]
    ELSE IF strip(raw[lineno]) # <<>>
         THEN RefreshLoop(raw, lineno + 1,
                          Append(its, strip(raw[lineno])), Append(lm, lineno))
         ELSE RefreshLoop(raw, lineno + 1, its, lm)

\* Mutant: the cursor is not clamped.
ClampIndexMissing(idx, n) == idx

\* self.index = min(self.index, max(0, len(self.items) - 1))
ClampIndex(idx, n) == Min(idx, Max(0, n - 1))

\* Mutant: the item list is parsed once and kept.
refresh_items_cached(t, idx) ==
    IF items # <<>>
    THEN [items |-> items, line_map |-> line_map,
          index |-> ClampIndex(idx, Len(items))]
    ELSE LET r == RefreshLoop(splitlines(t), 1, <<>>, <<>>)
         IN  [items |-> r.items, line_map |-> r.line_map,
              index |-> ClampIndex(idx, Len(r.items))]

\* _refresh_items: the new items, line_map and index for text t
refresh_items(t, idx) ==
    LET r == RefreshLoop(splitlines(t), 1, <<>>, <<>>)
    IN  [items |-> r.items, line_map |-> r.line_map,
         index |-> ClampIndex(idx, Len(r.items))]

\* _update_label: the text put on index_lbl
LabelText(idx, total) ==
    str(IF total # 0 THEN (idx % total) + 1 ELSE 0) \o " / " \o str(total)

\* The Text widget: a line ends at "\n" only.  The line of character i,
\* the characters "k.0" .. "k.end" of line k (none when the box has no such
\* line), and the lines on which some character of tg stands.
LineOfChar(t, i) == 1 + Cardinality({j \in 1..(i - 1) : t[j] = "\n"})
LineChars(t, k) == {i \in 1..Len(t) : t[i] # "\n" /\ LineOfChar(t, i) = k}
TaggedLines(t, tg) == {LineOfChar(t, i) : i \in tg}

\* The tag after the user has replaced the characters between the first p
\* and the last s of the text old, giving new: the characters kept carry
\* what they carried, and the ones typed get the tag when the characters on
\* both sides of the insertion point carry it.
Retag(old, tg, new, p, s) ==
    LET shift == Len(new) - Len(old)
        inherits == p >= 1 /\ s >= 1 /\ p \in tg /\ (Len(old) - s + 1) \in tg
    IN  {i \in tg : i <= p}
        \cup {i + shift : i \in {j \in tg : j > Len(old) - s}}
        \cup (IF inherits THEN (p + 1)..(Len(new) - s) ELSE {})

\* _highlight_current: the characters tagged after the call,
\* tag_add("current_item", f"{cur_line}.0", f"{cur_line}.end")
HighlightOf(t, its, lm, idx) == IF its = <<>> THEN {} ELSE LineChars(t, lm[idx + 1])

----------------------------------------------------------------------------
(* Settings and global hot-keys *)

\* The keys a "hotkeys" object can hold: the two actions, and "stop" for
\* any other key a stored file may carry.  Absent: the key is not there.
Keys == {"next", "prev", "stop"}
Absent == "-"

\* Iteration order of self.hotkeys: the keys of DEFAULT_HOTKEYS, then the
\* keys dict.update() added.
KeyOrder == <<"next", "prev", "stop">>

DEFAULT_HOTKEYS ==
    [k \in Keys |-> CASE k = "next" -> "ctrl+shift+alt+right"
                      [] k = "prev" -> "ctrl+shift+alt+left"
                      [] OTHER -> Absent]

PasteAlias == "ctrl+v"

\* Combos the user chooses from; keyboard.add_hotkey raises ValueError for
\* the ones of Rejected.
Combos == {"ctrl+shift+alt+right", "ctrl+shift+alt+left", "ctrl+v", "bad!!combo"}
Rejected == {"bad!!combo"}

Backends == {"keyboard", "none"}

\* The first clearing function of _reset_keyboard_hotkeys the installed
\* keyboard library has; "none": it has none of them, or the last one
\* raises.
Libraries == {"clear_all_hotkeys", "remove_all_hotkeys", "unhook_all_hotkeys", "none"}

NoKeys == [k \in Keys |-> Absent]
KeysOf(h) == {k \in Keys : h[k] # Absent}

\* What the file at CONFIG_PATH can be: not there, not JSON, or a JSON
\* object whose "hotkeys" member gives combos to some of the keys.
StoredCombos == {"ctrl+v", "bad!!combo"}
StoredChoices ==
    {[kind |-> "absent", hotkeys |-> NoKeys], [kind |-> "malformed", hotkeys |-> NoKeys]}
    \cup {[kind |-> "json", hotkeys |-> h] : h \in [Keys -> StoredCombos \cup {Absent}]}

\* _load_settings: self.hotkeys.update(stored "hotkeys"), a warning otherwise
load_settings(h, st) ==
    IF st.kind = "json"
    THEN [k \in Keys |-> IF st.hotkeys[k] # Absent THEN st.hotkeys[k] ELSE h[k]]
    ELSE h

\* _save_settings: json.dumps({"hotkeys": self.hotkeys}) written to the file
save_settings(h) == [kind |-> "json", hotkeys |-> h]

\* The handler the lambda of a binding calls:
\* self.next_item if a == "next" else self.prev_item
Target(a) == IF a = "next" THEN "next" ELSE "prev"

\* _reset_keyboard_hotkeys: the first clearing function that exists removes
\* every hot-key, after an AttributeError for each one tried before it;
\* with none the last exception is swallowed and every hot-key stays.
reset_keyboard_hotkeys(rs, lb) ==
    CASE lb = "clear_all_hotkeys" -> <<>>
      [] lb = "remove_all_hotkeys" -> <<>>
      [] lb = "unhook_all_hotkeys" -> <<>>
      [] OTHER -> rs

\* Mutant: a rejected combo takes the hot-keys added before it off again.
RECURSIVE AddHotkeysDropsOnError(_, _, _)
AddHotkeysDropsOnError(h, i, rs) ==
    IF i > Len(KeyOrder)
    THEN [regs |-> Append(rs, [combo |-> PasteAlias, key |-> "paste", calls |-> "next"]),
          box |-> 0]
    ELSE LET k == KeyOrder[i]
         IN  IF h[k] = Absent THEN AddHotkeysDropsOnError(h, i + 1, rs)
             ELSE IF h[k] \in Rejected
                  THEN [regs |-> <<>>, box |-> i]
                  ELSE AddHotkeysDropsOnError(h, i + 1,
                           Append(rs, [combo |-> h[k], key |-> k, calls |-> Target(k)]))

\* The loop of _register_global_hooks over self.hotkeys.items() from the
\* i-th binding on, then the paste alias.  At a rejected combo
\* messagebox.showerror opens an error box and returns only when the user
\* closes it: the loop stands at that binding (box), with the hot-keys added
\* so far live and Tk's event loop running.
RECURSIVE AddHotkeys(_, _, _)
AddHotkeys(h, i, rs) ==
    IF i > Len(KeyOrder)
    THEN [regs |-> Append(rs, [combo |-> PasteAlias, key |-> "paste", calls |-> "next"]),
          box |-> 0]
    ELSE LET k == KeyOrder[i]
         IN  IF h[k] = Absent THEN AddHotkeys(h, i + 1, rs)
             ELSE IF h[k] \in Rejected
                  THEN [regs |-> rs, box |-> i]
                  ELSE AddHotkeys(h, i + 1,
                           Append(rs, [combo |-> h[k], key |-> k, calls |-> Target(k)]))

\* The binding the error box at place b of the loop is about
ReportedAt(h, b) ==
    IF b = 0 THEN {} ELSE {[key |-> KeyOrder[b], combo |-> h[KeyOrder[b]]]}

\* _register_global_hooks up to its first error box, or to its end
register_global_hooks(h, rs, be, lb) ==
    IF be = "keyboard"
    THEN AddHotkeys(h, 1, reset_keyboard_hotkeys(rs, lb))
    ELSE [regs |-> rs, box |-> 0]

----------------------------------------------------------------------------
\* main(): ClipBeatApp().mainloop().  mainloop() is entered when __init__
\* has returned; while an error box of the registration is open inside
\* __init__ (b # 0) the main thread is not in it.
MainThread(b) == IF b = 0 THEN "loop" ELSE "init"

\* ClipBeatApp.__init__ with the file st, the backend be and the library lb,
\* up to the first error box of the registration or to its end
Construct(st, be, lb) ==
    /\ stored = st
    /\ backend = be
    /\ lib = lb
    /\ hotkeys = load_settings(DEFAULT_HOTKEYS, st)
    /\ LET r == register_global_hooks(load_settings(DEFAULT_HOTKEYS, st), <<>>, be, lb)
       IN  /\ regs = r.regs
           /\ box = r.box
           /\ reported = ReportedAt(load_settings(DEFAULT_HOTKEYS, st), r.box)
           /\ root = MainThread(r.box)
    /\ settings = "none"
    /\ saves = 0

\* The widgets and the item state __init__ builds, with t in the text box
Widgets(t) ==
    /\ text = t
    /\ items = <<>>
    /\ line_map = <<>>
    /\ index = 0
    /\ clipboard = <<>>
    /\ highlight = {}
    /\ tagged = {}
    /\ label = "0 / 0"
    /\ stack = <<>>
    /\ queue = <<>>
    /\ ctx = "ui"
    /\ edits = 0
    /\ trail = <<>>
    /\ last = [op |-> "none", end |-> "none"]

Fresh == Widgets(<<>>)

\* The application after construction, no settings file, with the keyboard
\* library.
Init ==
    /\ Construct([kind |-> "absent", hotkeys |-> NoKeys], "keyboard", "clear_all_hotkeys")
    /\ Fresh

----------------------------------------------------------------------------
(* Navigation *)

\* Mutants: the cursor moves on without the wrap, stops at the last item,
\* or does not move.
NextIndexUnwrapped(idx, n) == idx + 1
NextIndexSaturating(idx, n) == Min(idx + 1, n - 1)
NextIndexStays(idx, n) == idx % n

\* self.index = (self.index + 1) % len(self.items)
NextIndex(idx, n) == (idx + 1) % n

\* Mutants: the cursor stops at the first item; the cursor does not move.
PrevIndexSaturating(idx, n) == Max(idx - 1, 0)
PrevIndexStays(idx, n) == idx

\* self.index = (self.index - 1) % len(self.items)
PrevIndex(idx, n) == (idx - 1) % n

Top == stack[Len(stack)]
Pop(st) == SubSeq(st, 1, Len(st) - 1)

\* The handler suspended in self.update() has had an event dispatched in it.
Pumped(st) ==
    IF st = <<>> THEN st ELSE [st EXCEPT ![Len(st)].pumped = TRUE]

\* A handler in self.update(): the cursor before the call (pre) and after
\* the clamp of _refresh_items (c)
Frame(op, pre, c) == [op |-> op, pre |-> pre, c |-> c, pumped |-> FALSE]

\* What the user sees and can paste
Display == <<clipboard, highlight, label>>

\* The latest TrailLen entries of tr
TrailLen == MaxLines
Latest(tr) ==
    IF Len(tr) <= TrailLen THEN tr ELSE SubSeq(tr, Len(tr) - TrailLen + 1, Len(tr))

\* How clipboard_clear() / clipboard_append() end: Tk raises TclError when
\* the clipboard cannot be written.
ClipOutcomes == {"ok", "clear_fails", "append_fails"}

\* The handler ends here: it returned early or an exception left it.
Ends(op, how) ==
    /\ stack' = Pumped(stack)
    /\ trail' = <<>>
    /\ last' = [op |-> op, end |-> how]

\* _highlight_current and _copy_current up to self.update(), lines 143-155,
\* for a non-empty item list and the cursor idx
ShowCurrent(op, pre, c, its, lm, idx, clip) ==
    IF idx >= Len(lm)
    THEN \* self.line_map[self.index] raises IndexError after tag_remove
         /\ tagged' = {}
         /\ highlight' = {}
         /\ clipboard' = clipboard
         /\ Ends(op, "IndexError")
    ELSE /\ tagged' = HighlightOf(text, its, lm, idx)
         /\ highlight' = TaggedLines(text, tagged')
         /\ clipboard' = CASE clip = "ok" -> its[idx + 1]
                           [] clip = "clear_fails" -> clipboard
                           [] clip = "append_fails" -> <<>>
         /\ IF clip = "ok"
            THEN /\ stack' = Append(Pumped(stack), Frame(op, pre, c))
                 /\ trail' = IF stack = <<>> THEN trail ELSE <<>>
                 /\ last' = last
            ELSE Ends(op, "TclError")

\* Mutant: the early return takes the highlight off first.
EmptyReturnClears(op) ==
    /\ highlight' = {}
    /\ tagged' = {}
    /\ clipboard' = clipboard
    /\ Ends(op, "empty")

\* `if not self.items: return` of next_item and prev_item: nothing is
\* highlighted, copied or relabelled
EmptyReturn(op) ==
    /\ UNCHANGED <<clipboard, highlight, tagged>>
    /\ Ends(op, "empty")

\* next_item, lines 161-165: up to the self.update() inside _copy_current
next_item(clip) ==
    LET r == refresh_items(text, index)
    IN  /\ text' = text
        /\ items' = r.items
        /\ line_map' = r.line_map
        /\ index' = r.index
        /\ label' = label
        /\ IF r.items = <<>>
           THEN EmptyReturn("next")
           ELSE ShowCurrent("next", index, r.index, r.items, r.line_map, r.index, clip)

\* next_item, lines 166-167: after self.update() has returned.  When the
\* window was destroyed inside update(), _update_label raises TclError (the
\* label is no more) and nothing is changed.
next_item_resume ==
    /\ stack # <<>> /\ Top.op = "next"
    /\ queue = <<>> \/ root = "gone"
    /\ IF root = "gone"
       THEN /\ label' = label
            /\ index' = index
            /\ last' = [op |-> "next", end |-> "TclError"]
            /\ trail' = <<>>
       ELSE IF Len(items) = 0
       THEN /\ label' = LabelText(index, Len(items))
            /\ index' = index
            /\ last' = [op |-> "next", end |-> "ZeroDivisionError"]
            /\ trail' = <<>>
       ELSE /\ label' = LabelText(index, Len(items))
            /\ index' = NextIndex(index, Len(items))
            /\ last' = [op |-> "next", end |-> "ok"]
            /\ trail' = IF Top.pumped \/ Len(stack) > 1 THEN <<>>
                        ELSE Latest(Append(trail,
                                 [op |-> "next", pre |-> Top.pre,
                                  disp |-> <<clipboard, highlight, label'>>]))
    /\ stack' = Pop(stack)
    /\ ctx' = "ui"
    /\ UNCHANGED <<text, items, line_map, clipboard, highlight, tagged, queue, edits>>
    /\ UNCHANGED keyvars

\* prev_item, lines 170-175: up to the self.update() inside _copy_current
prev_item(clip) ==
    LET r == refresh_items(text, index)
        moved == PrevIndex(r.index, Len(r.items))
    IN  /\ text' = text
        /\ items' = r.items
        /\ line_map' = r.line_map
        /\ label' = label
        /\ IF r.items = <<>>
           THEN /\ index' = r.index
                /\ EmptyReturn("prev")
           ELSE /\ index' = moved
                /\ ShowCurrent("prev", index, r.index, r.items, r.line_map, moved, clip)

\* prev_item, line 176: after self.update() has returned.  When the window
\* was destroyed inside update(), _update_label raises TclError and the
\* label stays.
prev_item_resume ==
    /\ stack # <<>> /\ Top.op = "prev"
    /\ queue = <<>> \/ root = "gone"
    /\ IF root = "gone"
       THEN /\ label' = label
            /\ last' = [op |-> "prev", end |-> "TclError"]
            /\ trail' = <<>>
       ELSE /\ label' = LabelText(index, Len(items))
            /\ last' = [op |-> "prev", end |-> "ok"]
            /\ trail' = IF Top.pumped \/ Len(stack) > 1 THEN <<>>
                        ELSE Latest(Append(trail,
                                 [op |-> "prev", pre |-> Top.pre,
                                  disp |-> <<clipboard, highlight, label'>>]))
    /\ stack' = Pop(stack)
    /\ ctx' = "ui"
    /\ UNCHANGED <<text, items, line_map, index, clipboard, highlight, tagged, queue,
                   edits>>
    /\ UNCHANGED keyvars

Navigate(a, clip) == IF a = "next" THEN next_item(clip) ELSE prev_item(clip)

----------------------------------------------------------------------------
(* Events *)

\* Room for one more handler or callback within the bound
Room == Len(stack) + Len(queue) < MaxDepth

\* The main window takes the user's input: mainloop() runs, the window is
\* there and no error box is open.
Usable == root = "loop" /\ box = 0

\* The user changes the text of the box: the characters between the first
\* p and the last s are replaced (typed over, pasted over or deleted; they
\* may be replaced by the same characters).  When characters are deleted
\* and none typed, the user may have cut them (<<Cut>> of the Text class):
\* they are then on the clipboard.
Edit ==
    \E t \in Texts :
        /\ edits < MaxEdits
        /\ Usable
        /\ edits' = edits + 1
        /\ text' = t
        /\ \E p, s \in 0..Min(Len(text), Len(t)) :
               /\ p + s <= Min(Len(text), Len(t))
               /\ p + s < Max(Len(text), Len(t))
               /\ SubSeq(text, 1, p) = SubSeq(t, 1, p)
               /\ SubSeq(text, Len(text) - s + 1, Len(text)) = SubSeq(t, Len(t) - s + 1, Len(t))
               /\ tagged' = Retag(text, tagged, t, p, s)
               /\ \E cut \in BOOLEAN :
                      IF cut
                      THEN /\ Len(t) = p + s
                           /\ clipboard' = SubSeq(text, p + 1, Len(text) - s)
                      ELSE clipboard' = clipboard
        /\ highlight' = TaggedLines(t, tagged')
        /\ stack' = Pumped(stack)
        /\ trail' = <<>>
        /\ ctx' = "ui"
        /\ UNCHANGED <<items, line_map, index, label, queue, last>>
        /\ UNCHANGED keyvars

\* The selections the user copies: one whole line of the box that has
\* characters, from its first character i to its last one j.
Selections(t) ==
    {<<i, j>> \in (1..Len(t)) \X (1..Len(t)) :
        \E k \in 1..Len(t) :
            /\ LineChars(t, k) # {}
            /\ \A c \in LineChars(t, k) : i <= c /\ c <= j
            /\ i \in LineChars(t, k) /\ j \in LineChars(t, k)}

\* The user copies a selection of the text box (<<Copy>> of the Text class):
\* the characters i .. j are on the clipboard, nothing else changes.
Copy ==
    /\ Usable
    /\ \E sel \in Selections(text) : clipboard' = SubSeq(text, sel[1], sel[2])
    /\ clipboard' # clipboard
    /\ stack' = Pumped(stack)
    /\ ctx' = "ui"
    /\ UNCHANGED <<text, items, line_map, index, highlight, tagged, label, queue,
                   edits, trail, last>>
    /\ UNCHANGED keyvars

\* The user closes the main window: the window is destroyed.  This is an
\* event like any other: it is also dispatched inside a handler's
\* self.update() and while an error box of the registration is open.  In
\* the latter case messagebox.showerror raises TclError, which the
\* `except ValueError` of _register_global_hooks does not catch: the
\* registration is abandoned where it stands, the remaining bindings and
\* the paste alias are not added.  What waits in the queue is not run.
Close ==
    /\ root # "gone"
    /\ root' = "gone"
    /\ box' = 0
    /\ settings' = IF box # 0 /\ settings = "registering" THEN "abandoned" ELSE settings
    /\ stack' = Pumped(stack)
    /\ ctx' = "ui"
    /\ UNCHANGED <<text, items, line_map, index, clipboard, highlight, tagged, label,
                   queue, edits, trail, last>>
    /\ UNCHANGED <<hotkeys, stored, regs, reported, backend, lib, saves>>

\* The buttons and the <Right> / <Left> bindings call the handler directly;
\* the clipboard write ends in one of the ways of C.
PressNext(C) ==
    /\ Room
    /\ Usable
    /\ \E clip \in C : next_item(clip)
    /\ ctx' = "ui"
    /\ UNCHANGED <<queue, edits>>
    /\ UNCHANGED keyvars

PressPrev(C) ==
    /\ Room
    /\ Usable
    /\ \E clip \in C : prev_item(clip)
    /\ ctx' = "ui"
    /\ UNCHANGED <<queue, edits>>
    /\ UNCHANGED keyvars

LocalNext == PressNext(ClipOutcomes)
LocalPrev == PressPrev(ClipOutcomes)

\* Mutant: the callback calls the handler on the hot-key thread.
tk_safe_inline(a) ==
    /\ Navigate(a, "ok")
    /\ queue' = queue

\* tk_safe: root.after(0, lambda: func()) from the hot-key thread.  The
\* callback is scheduled while the main thread is in mainloop(); before
\* that root.after raises RuntimeError in the hot-key thread, and once the
\* window is destroyed there is no root to schedule on (`if root:`): in both
\* cases nothing is scheduled.
tk_safe(a) ==
    /\ queue' = IF root = "loop" THEN Append(queue, a) ELSE queue
    /\ UNCHANGED <<text, items, line_map, index, clipboard, highlight, tagged, label,
                   stack, trail, last>>

\* A registered global hot-key fires on the hot-key thread: the library
\* calls the lambda of a live registration.
HotkeyFire ==
    /\ Room
    /\ \E i \in DOMAIN regs : tk_safe(regs[i].calls)
    /\ ctx' = "hotkey"
    /\ edits' = edits
    /\ UNCHANGED keyvars

\* The event loop runs the oldest after(0) callback.
RunOldest(C) ==
    /\ queue # <<>>
    /\ root = "loop"
    /\ \E clip \in C : Navigate(Head(queue), clip)
    /\ queue' = Tail(queue)
    /\ ctx' = "ui"
    /\ edits' = edits
    /\ UNCHANGED keyvars

RunCallback == RunOldest(ClipOutcomes)

Next ==
    \/ Edit
    \/ Copy
    \/ Close
    \/ LocalNext
    \/ LocalPrev
    \/ HotkeyFire
    \/ RunCallback
    \/ next_item_resume
    \/ prev_item_resume

Spec == Init /\ [][Next]_vars

\* The same program where the clipboard takes every write; events are still
\* dispatched while a handler is in self.update().
SoundNext == PressNext({"ok"})
SoundPrev == PressPrev({"ok"})
SoundCallback == RunOldest({"ok"})

NextSound ==
    \/ Edit
    \/ SoundNext
    \/ SoundPrev
    \/ HotkeyFire
    \/ SoundCallback
    \/ next_item_resume
    \/ prev_item_resume

SpecSound == Init /\ [][NextSound]_vars

\* The same again where the user edits the text only while no handler is in
\* flight: what is dispatched inside self.update() is navigation alone.
IdleEdit == stack = <<>> /\ Edit

NextNested ==
    \/ IdleEdit
    \/ SoundNext
    \/ SoundPrev
    \/ HotkeyFire
    \/ SoundCallback
    \/ next_item_resume
    \/ prev_item_resume

SpecNested == Init /\ [][NextNested]_vars

\* The user types the text once, and the UI loop is fair: mainloop (and
\* self.update() inside a handler) keeps dispatching, so a callback that
\* waits in the queue is run.
FirstEdit == edits = 0 /\ Edit
FairNext == PressNext({"ok"})
FairPrev == PressPrev({"ok"})
FairCallback == RunOldest({"ok"})

NextFair ==
    \/ FirstEdit
    \/ FairNext
    \/ FairPrev
    \/ HotkeyFire
    \/ FairCallback
    \/ next_item_resume
    \/ prev_item_resume

SpecFair == Init /\ [][NextFair]_vars /\ WF_vars(FairCallback)

\* The same program where the clipboard takes every write and no event is
\* pending while a handler is in self.update(): one call at a time.
CalmEdit == stack = <<>> /\ Edit
CalmNext == stack = <<>> /\ PressNext({"ok"})
CalmPrev == stack = <<>> /\ PressPrev({"ok"})
CalmHotkey == stack = <<>> /\ HotkeyFire
CalmCallback == stack = <<>> /\ RunOldest({"ok"})

NextCalm ==
    \/ CalmEdit
    \/ CalmNext
    \/ CalmPrev
    \/ CalmHotkey
    \/ CalmCallback
    \/ next_item_resume
    \/ prev_item_resume

SpecCalm == Init /\ [][NextCalm]_vars

----------------------------------------------------------------------------
(* The parse alone: any short text of letters, blanks and line breaks is   *)
(* in the box, and the handlers run one at a time on it.                   *)

ParseChars == {"a", " ", "\n", "\r"}
ParseTexts == SeqsUpTo(ParseChars, MaxChars)

InitParse ==
    /\ Construct([kind |-> "absent", hotkeys |-> NoKeys], "keyboard", "clear_all_hotkeys")
    /\ \E t \in ParseTexts : Widgets(t)

ParseNext == stack = <<>> /\ PressNext({"ok"})
ParsePrev == stack = <<>> /\ PressPrev({"ok"})

NextParse ==
    \/ ParseNext
    \/ ParsePrev
    \/ next_item_resume
    \/ prev_item_resume

SpecParse == InitParse /\ [][NextParse]_vars

----------------------------------------------------------------------------
(* The settings dialog and the hot-key registrations, for any settings     *)
(* file, backend and keyboard library; the text box stays empty.           *)

\* How _save_settings ends: written; open() raises and the file is as it
\* was; write() raises after open() has truncated the file.
SaveOutcomes == {"ok", "open_fails", "write_fails"}

\* on_settings_saved(new) where _save_settings ends as out, up to the first
\* error box of the registration or to its end
on_settings_saved(new, out) ==
    /\ hotkeys' = new
    /\ IF out = "ok"
       THEN LET r == register_global_hooks(new, regs, backend, lib)
            IN  /\ stored' = save_settings(new)
                /\ regs' = r.regs
                /\ box' = r.box
                /\ reported' = ReportedAt(new, r.box)
                /\ settings' = IF r.box = 0 THEN "saved" ELSE "registering"
       ELSE /\ stored' = IF out = "write_fails"
                         THEN [kind |-> "malformed", hotkeys |-> NoKeys]
                         ELSE stored
            /\ UNCHANGED <<regs, reported, box>>
            /\ settings' = "save_failed"

\* The maps SettingsDialog._save passes: a combo for "next" and for "prev"
DialogMaps ==
    {[k \in Keys |-> CASE k = "next" -> n [] k = "prev" -> p [] OTHER -> Absent] :
        n \in Combos, p \in Combos}

\* The user commits the settings dialog.
SettingsSave ==
    /\ saves < MaxSaves
    /\ Usable
    /\ saves' = saves + 1
    /\ \E new \in DialogMaps, out \in SaveOutcomes : on_settings_saved(new, out)
    /\ ctx' = "ui"
    /\ UNCHANGED <<backend, lib, root>>
    /\ UNCHANGED <<text, items, line_map, index, clipboard, highlight, tagged, label,
                   stack, queue, edits, trail, last>>

\* The user closes the error box: _register_global_hooks goes on with the
\* next binding, up to the next error box or to its end, and the call it
\* is part of returns; when that call is __init__, mainloop() is entered.
CloseBox ==
    /\ box # 0
    /\ LET r == AddHotkeys(hotkeys, box + 1, regs)
       IN  /\ regs' = r.regs
           /\ box' = r.box
           /\ reported' = reported \cup ReportedAt(hotkeys, r.box)
           /\ settings' = IF r.box = 0 /\ settings = "registering" THEN "saved"
                          ELSE settings
           /\ root' = IF root = "init" THEN MainThread(r.box) ELSE root
    /\ ctx' = "ui"
    /\ UNCHANGED <<hotkeys, stored, backend, lib, saves>>
    /\ UNCHANGED <<text, items, line_map, index, clipboard, highlight, tagged, label,
                   stack, queue, edits, trail, last>>

\* The application is closed and started again: __init__ with the file as
\* it is now, in a new process with no hot-key registered, up to the first
\* error box of the registration or to its end.
Restart ==
    /\ hotkeys' = load_settings(DEFAULT_HOTKEYS, stored)
    /\ LET r == register_global_hooks(load_settings(DEFAULT_HOTKEYS, stored),
                                      <<>>, backend, lib)
       IN  /\ regs' = r.regs
           /\ box' = r.box
           /\ reported' = ReportedAt(load_settings(DEFAULT_HOTKEYS, stored), r.box)
           /\ root' = MainThread(r.box)
    /\ settings' = "none"
    /\ text' = <<>> /\ items' = <<>> /\ line_map' = <<>> /\ index' = 0
    /\ clipboard' = <<>> /\ highlight' = {} /\ tagged' = {} /\ label' = "0 / 0"
    /\ stack' = <<>> /\ queue' = <<>> /\ ctx' = "ui" /\ trail' = <<>>
    /\ last' = [op |-> "none", end |-> "none"]
    /\ UNCHANGED <<stored, backend, lib, saves, edits>>

KeysNext == PressNext({"ok"})
KeysPrev == PressPrev({"ok"})
KeysCallback == RunOldest({"ok"})

InitKeys ==
    /\ \E st \in StoredChoices, be \in Backends, lb \in Libraries : Construct(st, be, lb)
    /\ Fresh

NextKeys ==
    \/ SettingsSave
    \/ CloseBox
    \/ Close
    \/ Restart
    \/ HotkeyFire
    \/ KeysCallback
    \/ KeysNext
    \/ KeysPrev

SpecKeys == InitKeys /\ [][NextKeys]_vars

----------------------------------------------------------------------------
(* The text as the user sees it: lines, blank lines, items.  These are     *)
(* stated over the characters of the text, apart from the loops above.     *)

Breaks(t) == {i \in 1..Len(t) : t[i] = "\n"}
NumLines(t) == Cardinality(Breaks(t)) + 1
NthBreak(t, k) ==
    CHOOSE i \in Breaks(t) : Cardinality({j \in Breaks(t) : j <= i}) = k
LineAt(t, k) ==
    SubSeq(t, IF k = 1 THEN 1 ELSE NthBreak(t, k - 1) + 1,
              IF k = NumLines(t) THEN Len(t) ELSE NthBreak(t, k) - 1)
Inked(s) == {i \in 1..Len(s) : s[i] \notin Whitespace}
Trimmed(s) ==
    IF Inked(s) = {} THEN <<>>
    ELSE SubSeq(s, CHOOSE i \in Inked(s) : \A j \in Inked(s) : i <= j,
                   CHOOSE i \in Inked(s) : \A j \in Inked(s) : i >= j)
NonBlank(t) == {k \in 1..NumLines(t) : Trimmed(LineAt(t, k)) # <<>>}
ItemCount(t) == Cardinality(NonBlank(t))
\* the source line and the text of item c (0-based) of t
ItemLine(t, c) ==
    CHOOSE k \in NonBlank(t) : Cardinality({j \in NonBlank(t) : j < k}) = c
ItemText(t, c) == Trimmed(LineAt(t, ItemLine(t, c)))
Shows(t, c, n) ==
    /\ clipboard' = ItemText(t, c)
    /\ highlight' = {ItemLine(t, c)}
ShownLabel(c, n) == str(c + 1) \o " / " \o str(n)

\* steps of the handlers
Enters(op) == Len(stack') = Len(stack) + 1 /\ stack'[Len(stack')].op = op
Resumes(op) == stack # <<>> /\ stack' = Pop(stack) /\ Top.op = op
Quiet == stack = <<>> /\ queue = <<>>
TrailEnd(k) == trail[Len(trail) - k]

----------------------------------------------------------------------------
(* Claims *)

\* C1: a next_item call that nothing interrupts (no event, the closing of
\* the window included, is dispatched inside its self.update()), on a text
\* of n > 0 items with the cursor c in [0, n), leaves item c on the
\* clipboard, its source line highlighted, the label "(c+1) / n" and the
\* cursor at (c + 1) mod n.
C1_AdvanceCopiesThenMoves ==
    [][(Resumes("next") /\ ~Top.pumped /\ root = "loop" /\ Top.pre < ItemCount(text))
        => LET c == Top.pre
               n == ItemCount(text)
           IN  /\ Shows(text, c, n)
               /\ label' = ShownLabel(c, n)
               /\ index' = (c + 1) % n]_vars

C1_Witness ==
    /\ Quiet /\ trail # <<>> /\ TrailEnd(0).op = "next"
    /\ ItemCount(text) = 2 /\ TrailEnd(0).pre = 1 /\ index = 0
    /\ clipboard = <<"b">> /\ label = "2 / 2"

\* C2: a prev_item call that nothing interrupts (no event, the closing of
\* the window included, is dispatched inside its self.update()), on a text
\* of n > 0 items with the cursor c in [0, n), first moves the cursor to
\* (c - 1 + n) mod n, then shows the item there (clipboard, highlight,
\* label) and leaves the cursor where it is.
C2_RetreatMovesThenCopies ==
    [][/\ (Enters("prev") /\ index < ItemCount(text))
            => LET n == ItemCount(text)
               IN  /\ index' = (index - 1 + n) % n
                   /\ Shows(text, index', n)
       /\ (Resumes("prev") /\ ~Top.pumped /\ root = "loop" /\ Top.pre < ItemCount(text))
            => LET n == ItemCount(text)
               IN  /\ index' = index
                   /\ index = (Top.pre - 1 + n) % n
                   /\ Shows(text, index, n)
                   /\ label' = ShownLabel(index, n)]_vars

C2_Witness ==
    /\ Quiet /\ trail # <<>> /\ TrailEnd(0).op = "prev"
    /\ ItemCount(text) = 2 /\ TrailEnd(0).pre = 0 /\ index = 1
    /\ clipboard = <<"b">> /\ label = "2 / 2"

\* C3: no navigation action starts while another one has not returned.
C3_NavigationAtomic == Len(stack) <= 1

\* C4: after a re-parse that finds n > 0 items the cursor is in [0, n), and
\* a cursor that was >= n is clamped to n - 1 before the item is highlighted
\* and copied.
C4_CursorInRange ==
    [][/\ items' # <<>> => index' \in 0..(Len(items') - 1)
       /\ \A op \in Actions : Enters(op)
            => LET n == ItemCount(text)
                   f == stack'[Len(stack')]
                   at == IF op = "next" THEN f.c ELSE (f.c - 1 + n) % n
               IN  /\ Len(items') = n
                   /\ f.c \in 0..(n - 1)
                   /\ f.pre >= n => f.c = n - 1
                   /\ Shows(text, at, n)]_vars

C4_Witness ==
    /\ stack # <<>> /\ Top.op = "prev" /\ ~Top.pumped
    /\ Top.pre = 1 /\ Top.c = 0 /\ ItemCount(text) = 1 /\ index = 0

\* C5 as claimed: n calls of next_item in a row, or of prev_item, on a text
\* of n > 0 items that is not edited, return the cursor to the value it had
\* before the first of them.
SameRun(op, n) ==
    /\ Quiet /\ n > 0 /\ Len(trail) >= n
    /\ \A k \in 0..(n - 1) : TrailEnd(k).op = op
C5_WraparoundClosure ==
    \A op \in Actions :
        LET n == ItemCount(text)
        IN  SameRun(op, n) => index = TrailEnd(n - 1).pre

\* C5 amended: they return the cursor to the value the first call's re-parse
\* gave it: the value before the first call when that was in [0, n), and
\* n - 1 when it was beyond.
C5_WraparoundClosureClamped ==
    \A op \in Actions :
        LET n == ItemCount(text)
            c == TrailEnd(n - 1).pre
        IN  SameRun(op, n) => index = (IF c < n THEN c ELSE n - 1)

C5_Witness ==
    /\ SameRun("next", 2) /\ ItemCount(text) = 2
    /\ TrailEnd(1).pre = 1 /\ index = 1

\* C6: next_item and then prev_item, with the text unchanged between them,
\* shows the item next_item showed: prev_item returns with the clipboard,
\* the highlight and the label next_item returned with.
C6_AdvanceRetreatSameItem ==
    (Quiet /\ Len(trail) >= 2 /\ TrailEnd(1).op = "next" /\ TrailEnd(0).op = "prev")
        => TrailEnd(0).disp = TrailEnd(1).disp

C6_Witness ==
    /\ Quiet /\ Len(trail) >= 2
    /\ TrailEnd(1).op = "next" /\ TrailEnd(0).op = "prev"
    /\ ItemCount(text) = 2 /\ TrailEnd(1).pre = 1
    /\ Display = <<(<<"b">>), {2}, "2 / 2">>

\* C7: the item a navigation call copies and highlights is the non-blank
\* line, at the clamped cursor, of the text as it is at that call.
C7_NoStaleSequence ==
    [][\A op \in Actions : Enters(op)
            => LET n == ItemCount(text)
                   c == IF index < n THEN index ELSE n - 1
                   at == IF op = "next" THEN c ELSE (c - 1 + n) % n
               IN  /\ n > 0
                   /\ ItemLine(text, at) \in NonBlank(text)
                   /\ Shows(text, at, n)]_vars

C7_Witness ==
    /\ edits = 2 /\ stack # <<>> /\ Top.op = "next" /\ ~Top.pumped
    /\ last = [op |-> "next", end |-> "ok"]
    /\ label = "1 / 2" /\ ItemCount(text) = 1
    /\ clipboard = <<"b">> /\ highlight = {2}

\* C8: after a navigation call on an empty sequence the label is "0 / 0".
C8_EmptyShowsZero == last.end = "empty" => label = "0 / 0"

\* C9: a navigation call on a non-empty sequence whose clipboard write fails
\* still highlights the current item, updates the label and completes the
\* move of the cursor.
WriteFails(op) ==
    /\ last' = [op |-> op, end |-> "TclError"]
    /\ text' = text /\ Len(stack') = Len(stack) /\ Len(queue') <= Len(queue)
    /\ highlight' # {}
C9_ClipboardFailureNonFatal ==
    [][\A op \in Actions : WriteFails(op)
            => LET n == ItemCount(text)
                   c == IF index < n THEN index ELSE n - 1
                   at == IF op = "next" THEN c ELSE (c - 1 + n) % n
               IN  /\ highlight' = {ItemLine(text, at)}
                   /\ label' = ShownLabel(at, n)
                   /\ index' = (IF op = "next" THEN (c + 1) % n ELSE at)]_vars

\* C10: a step of the hot-key thread leaves the cursor, the item list, the
\* highlight, the label, the clipboard and the handlers alone; all it does
\* is append a callback to the UI queue (while mainloop() runs) or nothing;
\* the cursor changes in UI steps only.
C10_MarshalingBoundary ==
    [][/\ ctx' = "hotkey"
            => /\ UNCHANGED <<text, items, line_map, index, clipboard,
                              highlight, tagged, label, stack>>
               /\ IF root = "loop"
                  THEN \E a \in Actions : queue' = Append(queue, a)
                  ELSE queue' = queue
       /\ index' # index => ctx' = "ui"]_vars

C10_Witness ==
    /\ ctx = "hotkey" /\ stack # <<>> /\ queue = <<"prev">>

\* The queue of marshaled actions changes only by an action joining at its
\* end, with nothing executed in that step, or by its oldest action leaving
\* with that action's handler started in the same step.
Started(op) ==
    \/ Enters(op)
    \/ /\ Len(stack') = Len(stack)
       /\ last' \in {[op |-> op, end |-> e] : e \in {"empty", "TclError", "IndexError"}}
QueueFifo ==
    queue' # queue =>
        \/ /\ \E a \in Actions : queue' = Append(queue, a)
           /\ UNCHANGED <<stack, last, index, clipboard, highlight, label>>
        \/ /\ queue # <<>>
           /\ queue' = Tail(queue)
           /\ Started(Head(queue))
\* While the window is there, a hot-key that fires puts its action in the
\* queue.
FireEnqueues ==
    (ctx' = "hotkey" /\ root # "gone") => \E a \in Actions : queue' = Append(queue, a)
\* Once mainloop() runs and is fair, no action waits for ever: the queue is
\* empty again and again, or callbacks are run again and again (so each
\* waiting action, which only the actions before it separate from the head,
\* comes to be run).
FifoInMainloop ==
    /\ [][QueueFifo /\ FireEnqueues]_vars
    /\ ([]<>(queue = <<>>) \/ []<><<FairCallback>>_vars)

\* C11: marshaled actions are run in the order they were queued, and each
\* hot-key that fires while the window is there leads to one execution of
\* its action: it joins the queue, and leaves it only as the oldest one, with
\* its handler started in that step.
C11_FifoMarshaling ==
    [][KeysOf(hotkeys) = {"next", "prev"} => (QueueFifo /\ FireEnqueues)]_vars

\* C12: after a registration with the keyboard backend of a binding map of
\* the two actions, the combos live in the library are exactly the accepted
\* combos of the map and the paste alias, and no combo calls the same
\* handler through more than one registration (one press triggers an action
\* at most once).
Accepted(h) == {k \in KeysOf(h) : h[k] \notin Rejected}
Registered ==
    /\ backend = "keyboard"
    /\ settings \notin {"save_failed", "abandoned"}
    /\ box = 0
    /\ root = "loop"
C12_FullReplacement ==
    (Registered /\ KeysOf(hotkeys) = {"next", "prev"}) =>
        /\ {regs[i].combo : i \in DOMAIN regs}
               = {hotkeys[k] : k \in Accepted(hotkeys)} \cup {PasteAlias}
        /\ \A i, j \in DOMAIN regs :
               (regs[i].combo = regs[j].combo /\ regs[i].calls = regs[j].calls) => i = j

\* C13: once a registration with the keyboard backend has returned and the
\* application runs, an error box was shown for exactly the bindings whose
\* combo the library rejected, every binding with an accepted combo is
\* live, so is the paste alias, and the local <Right> / <Left> bindings and
\* the buttons call their handlers (whenever the bound on handlers in
\* flight leaves room for one).
IsLive(k, combo, calls) ==
    \E i \in DOMAIN regs : regs[i] = [combo |-> combo, key |-> k, calls |-> calls]
C13_FailureIsolation ==
    Registered =>
        /\ reported = {[key |-> k, combo |-> hotkeys[k]] :
                           k \in KeysOf(hotkeys) \ Accepted(hotkeys)}
        /\ \A k \in Accepted(hotkeys) : IsLive(k, hotkeys[k], Target(k))
        /\ IsLive("paste", PasteAlias, "next")
        /\ Room => (ENABLED KeysNext /\ ENABLED KeysPrev)
\* the settings file gives a rejected combo to "prev" and none to "next",
\* whose default is accepted: in this run of the program no hot-key calls
\* prev_item, so the prev_item that has run since the registration was
\* called by the local binding or the button
C13_Witness ==
    /\ Registered /\ saves = 0 /\ settings = "none"
    /\ KeysOf(hotkeys) = {"next", "prev"}
    /\ hotkeys["prev"] \in Rejected
    /\ hotkeys["next"] = "ctrl+shift+alt+right"
    /\ reported = {[key |-> "prev", combo |-> hotkeys["prev"]]}
    /\ IsLive("next", "ctrl+shift+alt+right", "next")
    /\ IsLive("paste", PasteAlias, "next")
    /\ \A i \in DOMAIN regs : regs[i].calls = "next"
    /\ last = [op |-> "prev", end |-> "empty"]
    /\ queue = <<>>

\* C14: the binding map has exactly the keys "next" and "prev", after the
\* load at construction whatever the settings file holds and after any
\* commit of the dialog, and every live user binding calls the handler its
\* key names.
C14_BindingMapKeys ==
    /\ KeysOf(hotkeys) = {"next", "prev"}
    /\ \A i \in DOMAIN regs : regs[i].key # "paste" => regs[i].calls = regs[i].key

\* C18: once on_settings_saved has finished, by returning or by the save
\* raising, with a keyboard library that has a clearing function, the
\* settings file holds the in-memory binding map and the live user bindings
\* are the accepted bindings of that map.
C18_SettingsCommit ==
    (settings \in {"saved", "save_failed"} /\ lib # "none") =>
        /\ stored = save_settings(hotkeys)
        /\ backend = "keyboard" =>
               {regs[i] : i \in {j \in DOMAIN regs : regs[j].key # "paste"}}
                   = {[combo |-> hotkeys[k], key |-> k, calls |-> Target(k)] :
                          k \in Accepted(hotkeys)}

\* C15: once a handler has parsed the text, the items are the non-blank
\* lines of the text box from top to bottom, each without its leading and
\* trailing whitespace and paired with the number its line has in the box
\* (blank lines counted); an empty text gives no item.
Parsed == stack # <<>> \/ last.op # "none"
C15_ParseLines ==
    Parsed =>
        /\ Len(items) = ItemCount(text)
        /\ Len(line_map) = ItemCount(text)
        /\ \A c \in 0..(ItemCount(text) - 1) :
               /\ items[c + 1] = ItemText(text, c)
               /\ line_map[c + 1] = ItemLine(text, c)

\* C16: when a navigation returns normally and no other navigation is in
\* flight, some position of the text's items has its item on the clipboard,
\* its number on the label and its source line as the one highlighted line.
ReturnsLast == stack # <<>> /\ stack' = <<>> /\ last'.end = "ok"
C16_DisplayConsistency ==
    [][ReturnsLast =>
          \E c \in 0..(ItemCount(text') - 1) :
              /\ clipboard' = ItemText(text', c)
              /\ label' = ShownLabel(c, ItemCount(text'))
              /\ highlight' = {ItemLine(text', c)}]_vars

\* C17: a navigation handler called while the text has no item leaves the
\* clipboard and the highlight as they were and copies nothing: it returns
\* at once, without entering self.update().
NavigatesOnEmpty ==
    /\ ItemCount(text) = 0
    /\ text' = text
    /\ Len(queue') <= Len(queue)
    /\ Len(stack') >= Len(stack)
    /\ last' # last \/ queue' # queue
C17_EmptyNavigationNoOutput ==
    [][NavigatesOnEmpty =>
          /\ clipboard' = clipboard
          /\ highlight' = highlight
          /\ Len(stack') = Len(stack)
          /\ last'.end = "empty"]_vars
\* an item was copied and highlighted, the text was emptied, and a handler
\* has then run on the empty text
C17_Witness ==
    /\ ItemCount(text) = 0
    /\ last.end = "empty"
    /\ clipboard # <<>>
    /\ highlight # {}
    /\ stack = <<>>

\* C19: no navigation ends with a division by zero: next_item never
\* computes (index + 1) % len(items) with an empty item list.
C19_NoDivisionByZero == last.end # "ZeroDivisionError"

\* C20: for a text of n > 0 items that is not edited and a cursor c in
\* [0, n), next_item followed by prev_item, and prev_item followed by
\* next_item, leave the cursor at c.
C20_MutualInverses ==
    \A first \in Actions :
        LET n == ItemCount(text)
            second == IF first = "next" THEN "prev" ELSE "next"
        IN  (/\ Quiet /\ Len(trail) >= 2
             /\ TrailEnd(1).op = first /\ TrailEnd(0).op = second
             /\ TrailEnd(1).pre < n)
            => index = TrailEnd(1).pre
\* prev_item then next_item from cursor 0 of two items: through the last
\* item and back
C20_Witness ==
    /\ Quiet /\ Len(trail) >= 2
    /\ ItemCount(text) = 2
    /\ TrailEnd(1).op = "prev" /\ TrailEnd(1).pre = 0
    /\ TrailEnd(0).op = "next" /\ TrailEnd(0).pre = 1
    /\ index = 0

====
